---- MODULE Spec2Model ----
(***************************************************************************)
(* write-githubstat: src/src/writegithubstat/githubstat.py                 *)
(*                                                                         *)
(* WriteGithubStat.write_stat fetches one metric of a GitHub repository,   *)
(* stamps the rows with (date, owner, repo), merges them into the CSV file *)
(* of the metric and rewrites the file.  The model follows one target file *)
(* through calls of write_stat, step by step at the points where the call  *)
(* touches the network or the file.                                        *)
(*                                                                         *)
(* A cell value is a pair <<tag, text>>: tag "str" for a Python str, "int" *)
(* for an integer, "nan" for pandas' missing value; text is what to_csv    *)
(* prints for it.  A DataFrame is [cols, rows], each row aligned to cols.  *)
(* A JSON object is a sequence of <<key, value>> pairs (Python dicts keep  *)
(* insertion order, and pandas takes the column order from it).            *)
(***************************************************************************)
EXTENDS Integers, Sequences, FiniteSets, TLC

\* ------------------------------------------------------------------ bounds
\* write_stat calls made by one writer
MaxCalls == 2

\* ------------------------------------------------------------ cell values
StrVal(s) == <<"str", s>>
IntVal(s) == <<"int", s>>
NaN == <<"nan", "">>

\* texts that pandas.read_csv reads as integers
NumericTexts == {"0", "2", "3", "4", "5", "7", "8", "10", "123"}

\* ---------------------------------------------------------------- helpers
InSeq(s, x) == \E i \in 1..Len(s) : s[i] = x
IndexOf(s, x) == CHOOSE i \in 1..Len(s) : s[i] = x

HasKey(item, k) == \E i \in 1..Len(item) : item[i][1] = k
GetKey(item, k) == item[CHOOSE i \in 1..Len(item) : item[i][1] = k][2]
Keys(item) == [i \in 1..Len(item) |-> item[i][1]]

RECURSIVE AddCols(_, _)
AddCols(cols, more) ==
    IF more = <<>> THEN cols
    ELSE AddCols(IF InSeq(cols, Head(more)) THEN cols ELSE Append(cols, Head(more)),
                 Tail(more))

RECURSIVE RecordCols(_)
RecordCols(items) ==
    IF items = <<>> THEN <<>>
    ELSE AddCols(Keys(Head(items)), RecordCols(Tail(items)))

\* -------------------------------------------------------------- DataFrame
EmptyFrame == [cols |-> <<>>, rows |-> <<>>]

\* DataFrame.empty: some axis has length 0
empty(df) == Len(df.cols) = 0 \/ Len(df.rows) = 0

\* pd.DataFrame(list of dicts): columns in order of first appearance
FromRecords(items) ==
    LET cols == RecordCols(items)
    IN [cols |-> cols,
        rows |-> [i \in 1..Len(items) |->
                    [j \in 1..Len(cols) |->
                        IF HasKey(items[i], cols[j]) THEN GetKey(items[i], cols[j])
                        ELSE NaN]]]

\* df.drop(col, axis=1)
DropCol(df, col) ==
    LET keep == SelectSeq(df.cols, LAMBDA c : c # col)
    IN [cols |-> keep,
        rows |-> [i \in 1..Len(df.rows) |->
                    [j \in 1..Len(keep) |-> df.rows[i][IndexOf(df.cols, keep[j])]]]]

Reindex(df, cols) ==
    [i \in 1..Len(df.rows) |->
        [j \in 1..Len(cols) |->
            IF InSeq(df.cols, cols[j]) THEN df.rows[i][IndexOf(df.cols, cols[j])]
            ELSE NaN]]

\* pd.concat([a, b]): union of the columns, a's first; rows of a, then of b
concat(a, b) ==
    LET cols == AddCols(a.cols, b.cols)
    IN [cols |-> cols, rows |-> Reindex(a, cols) \o Reindex(b, cols)]

\* ------------------------------------------------------------------- CSV
\* the target file: absent, or a sequence of lines, each a sequence of cells
NoFile == [exists |-> FALSE, lines |-> <<>>]
FileOf(lines) == [exists |-> TRUE, lines |-> lines]

\* DataFrame.to_csv(index=False): header line, then one line per row
to_csv(df) ==
    <<df.cols>> \o [i \in 1..Len(df.rows) |->
                      [j \in 1..Len(df.cols) |-> df.rows[i][j][2]]]

\* pd.read_csv raises: no line at all (EmptyDataError), or a line with more
\* fields than the header (ParserError)
read_csv_raises(lines) ==
    \/ Len(lines) = 0
    \/ \E i \in 2..Len(lines) : Len(lines[i]) > Len(lines[1])

\* pd.read_csv infers the type of a column from all of its cells: an empty
\* cell is missing, a column whose cells are all integers is an int column
ColumnTexts(lines, j) ==
    {lines[i][j] : i \in {k \in 2..Len(lines) : j <= Len(lines[k])}} \ {""}

ColumnIsInt(lines, j) ==
    /\ ColumnTexts(lines, j) # {}
    /\ ColumnTexts(lines, j) \subseteq NumericTexts

read_csv(lines) ==
    LET cols == lines[1]
    IN [cols |-> cols,
        rows |-> [i \in 1..(Len(lines) - 1) |->
                    [j \in 1..Len(cols) |->
                        IF j > Len(lines[i + 1]) \/ lines[i + 1][j] = "" THEN NaN
                        ELSE IF ColumnIsInt(lines, j) THEN IntVal(lines[i + 1][j])
                        ELSE StrVal(lines[i + 1][j])]]]

\* ------------------------------------------------------- metric variants
Metrics == {"Referrers", "Paths", "StarsForks", "ViewsClones"}

urls(m) ==
    CASE m = "Referrers" -> <<"traffic/popular/referrers">>
      [] m = "Paths" -> <<"traffic/popular/paths">>
      [] m = "StarsForks" -> <<"repos">>
      [] m = "ViewsClones" -> <<"traffic/views", "traffic/clones">>

dimensions(m) ==
    CASE m = "Referrers" -> <<"referrer">>
      [] m = "Paths" -> <<"path">>
      [] m = "StarsForks" -> <<>>
      [] m = "ViewsClones" -> <<>>

measures(m) ==
    CASE m = "Referrers" -> <<"count", "uniques">>
      [] m = "Paths" -> <<"count", "uniques">>
      [] m = "StarsForks" -> <<"stars", "forks">>
      [] m = "ViewsClones" -> <<"views_total", "views_unique", "clones_total", "clones_unique">>

\* a JSON body: a list of objects, or an object with scalar members (obj)
\* and list members (hist)
ListBody(items) == [kind |-> "list", items |-> items, obj |-> <<>>, hist |-> <<>>]
DictBody(obj, hist) == [kind |-> "dict", items |-> <<>>, obj |-> obj, hist |-> hist]

\* the days a writer runs for, and the days a traffic history may cover
Dates == {"2024-01-01", "2024-01-02"}
HistoryDays == {"2023-12-31"} \cup Dates
Timestamp(d) == d \o "T00:00:00Z"
\* str.startswith of a "%Y-%m-%d" prefix: the timestamp is of that day
startswith(ts, d) == \E day \in HistoryDays : ts = StrVal(Timestamp(day)) /\ day = d

\* the result of a call that may raise
Ok(v) == [ok |-> TRUE, v |-> v]
Raise == [ok |-> FALSE, v |-> EmptyFrame]

ZeroStat == <<<<"count", IntVal("0")>>, <<"uniques", IntVal("0")>>>>

\* ViewsClones._get_actual_stat: the first entry of data[name] of the day;
\* KeyError (no data[name], no "timestamp") and ValueError (no entry of the
\* day) are caught and give the zero entry
RECURSIVE FirstOfDay(_, _)
FirstOfDay(entries, d) ==
    IF entries = <<>> THEN ZeroStat
    ELSE IF ~HasKey(Head(entries), "timestamp") THEN ZeroStat
    ELSE IF startswith(GetKey(Head(entries), "timestamp"), d) THEN Head(entries)
    ELSE FirstOfDay(Tail(entries), d)

get_actual_stat(data, name, d) ==
    IF ~HasKey(data.hist, name) THEN ZeroStat
    ELSE FirstOfDay(GetKey(data.hist, name), d)

\* process_stat of each variant; d is the date the ViewsClones object holds
process_stat(m, responses, d) ==
    CASE m = "Referrers" ->
            IF responses[1].kind # "list" THEN Raise
            ELSE Ok(FromRecords(responses[1].items))
      [] m = "Paths" ->
            IF responses[1].kind # "list" THEN Raise
            ELSE LET df == FromRecords(responses[1].items)
                 IN Ok(IF InSeq(df.cols, "title") THEN DropCol(df, "title") ELSE df)
      [] m = "StarsForks" ->
            LET data == responses[1].obj
            IN IF ~HasKey(data, "stargazers_count") \/ ~HasKey(data, "forks_count")
               THEN Raise
               ELSE Ok(FromRecords(<< <<
                        <<"stars", GetKey(data, "stargazers_count")>>,
                        <<"forks", GetKey(data, "forks_count")>> >> >>))
      [] m = "ViewsClones" ->
            LET views == get_actual_stat(responses[1], "views", d)
                clones == get_actual_stat(responses[2], "clones", d)
            IN IF \E s \in {views, clones} : ~HasKey(s, "count") \/ ~HasKey(s, "uniques")
               THEN Raise
               ELSE Ok(FromRecords(<< <<
                        <<"views_total", GetKey(views, "count")>>,
                        <<"views_unique", GetKey(views, "uniques")>>,
                        <<"clones_total", GetKey(clones, "count")>>,
                        <<"clones_unique", GetKey(clones, "uniques")>> >> >>))

\* faulty variant: the status of the response is not looked at
raise_for_status_ignored(status) == FALSE

\* response.raise_for_status(): any status outside 2xx raises
raise_for_status(status) == status < 200 \/ status > 299

\* ------------------------------------------------------- WriteGithubStat
\* WriteGithubStat._insert_metadata
insert_metadata(df, date, owner, repo) ==
    [cols |-> <<"date", "owner", "repo">> \o df.cols,
     rows |-> [i \in 1..Len(df.rows) |->
                 <<StrVal(date), StrVal(owner), StrVal(repo)>> \o df.rows[i]]]

\* the row write_stat puts in place of an empty fetch
SentinelRow(m) ==
    [i \in 1..Len(dimensions(m)) |-> <<dimensions(m)[i], StrVal("-")>>]
    \o [i \in 1..Len(measures(m)) |-> <<measures(m)[i], IntVal("0")>>]

\* faulty variant: an empty fetch is stamped as it is, without the sentinel row
get_stats_no_sentinel(m, responses, d, date, owner, repo) ==
    LET stat == process_stat(m, responses, d)
    IN IF ~stat.ok THEN Raise
       ELSE Ok(insert_metadata(stat.v, date, owner, repo))

\* WriteGithubStat._get_stats, after the requests of get_stat
get_stats(m, responses, d, date, owner, repo) ==
    LET stat == process_stat(m, responses, d)
    IN IF ~stat.ok THEN Raise
       ELSE Ok(insert_metadata(IF empty(stat.v) THEN FromRecords(<<SentinelRow(m)>>)
                               ELSE stat.v,
                               date, owner, repo))

\* faulty variant: every error of read_csv is caught, not only FileNotFoundError
get_stored_stats_any_error(f) ==
    IF ~f.exists \/ read_csv_raises(f.lines) THEN Ok(EmptyFrame)
    ELSE Ok(read_csv(f.lines))

\* WriteGithubStat._get_stored_stats: only a missing file reads as empty
get_stored_stats(f) ==
    IF ~f.exists THEN Ok(EmptyFrame)
    ELSE IF read_csv_raises(f.lines) THEN Raise
    ELSE Ok(read_csv(f.lines))

\* the rows of the stored frame that _merge_stats drops: Series == str is
\* False for an integer or a missing cell
SameKey(df, row, date, owner, repo) ==
    /\ row[IndexOf(df.cols, "date")] = StrVal(date)
    /\ row[IndexOf(df.cols, "owner")] = StrVal(owner)
    /\ row[IndexOf(df.cols, "repo")] = StrVal(repo)

\* WriteGithubStat._merge_stats; stored["date"] is a KeyError without the column
merge_stats(stored, stats, date, owner, repo) ==
    IF empty(stored) THEN Ok(stats)
    ELSE IF \E c \in {"date", "owner", "repo"} : ~InSeq(stored.cols, c) THEN Raise
    ELSE Ok(concat([cols |-> stored.cols,
                    rows |-> SelectSeq(stored.rows,
                                LAMBDA r : ~SameKey(stored, r, date, owner, repo))],
                   stats))

\* ------------------------------------------------------------ environment
Owners == {"acme", "123"}
Repos == {"widget"}
StatKeys == Dates \X Owners \X Repos

RefItem(name, c, u) ==
    << <<"referrer", StrVal(name)>>, <<"count", IntVal(c)>>, <<"uniques", IntVal(u)>> >>
\* the same object with its members in another order, and with one more member
RefItemReordered(name, c, u) ==
    << <<"count", IntVal(c)>>, <<"referrer", StrVal(name)>>, <<"uniques", IntVal(u)>> >>
RefItemExtra(name, c, u) == Append(RefItem(name, c, u), <<"extra", StrVal("x")>>)
PathItem(path, title, c, u) ==
    << <<"path", StrVal(path)>>, <<"title", StrVal(title)>>,
       <<"count", IntVal(c)>>, <<"uniques", IntVal(u)>> >>
Entry(d, c, u) ==
    << <<"timestamp", StrVal(Timestamp(d))>>, <<"count", IntVal(c)>>, <<"uniques", IntVal(u)>> >>
\* a history that has an entry of 2024-01-01 and none of 2024-01-02
History(name) ==
    << <<name, <<Entry("2023-12-31", "10", "5"), Entry("2024-01-01", "4", "2")>> >> >>

\* the JSON bodies GitHub may answer the i-th request of a metric with
Bodies(m, i) ==
    CASE m = "Referrers" ->
            {ListBody(<<>>),
             ListBody(<<RefItem("google", "5", "4")>>),
             ListBody(<<RefItem("google", "5", "4"), RefItem("bing", "3", "2")>>),
             ListBody(<<RefItemReordered("google", "5", "4")>>),
             ListBody(<<RefItemExtra("google", "5", "4")>>)}
      [] m = "Paths" ->
            {ListBody(<<>>),
             ListBody(<<PathItem("/acme/widget", "widget", "3", "2")>>)}
      [] m = "StarsForks" ->
            {DictBody(<< <<"stargazers_count", IntVal("7")>>, <<"forks_count", IntVal("2")>> >>, <<>>),
             DictBody(<< <<"stargazers_count", IntVal("8")>>, <<"forks_count", IntVal("2")>> >>, <<>>),
             DictBody(<< <<"forks_count", IntVal("2")>> >>, <<>>)}
      [] m = "ViewsClones" ->
            LET name == IF i = 1 THEN "views" ELSE "clones"
            IN {DictBody(<<>>, History(name)),
                DictBody(<<>>, << <<name, <<>> >> >>),
                DictBody(<<>>, <<>>)}

ErrorBody == DictBody(<< <<"message", StrVal("Server Error")>> >>, <<>>)

Responses(m, i) ==
    {[status |-> 200, body |-> b] : b \in Bodies(m, i)}
    \cup {[status |-> 500, body |-> ErrorBody]}

\* a history file left by earlier runs for another repository, and the same
\* file with a line of too many fields
Header(m) == <<"date", "owner", "repo">> \o dimensions(m) \o measures(m)
OldLine(m) ==
    <<"2024-01-02", "acme", "gadget">>
    \o [i \in 1..Len(dimensions(m)) |-> "home"]
    \o [i \in 1..Len(measures(m)) |-> "10"]
ExistingFile(m) == FileOf(<<Header(m), OldLine(m)>>)
CorruptFile(m) == FileOf(<<Header(m), OldLine(m), Append(OldLine(m), "8")>>)

\* ------------------------------------------------------------------ state
VARIABLES
    file,       \* the target CSV file
    metric,     \* the metric variant the target file belongs to
    writers,    \* the processes that call write_stat on the file
    pc,         \* where each writer is in write_stat
    args,       \* date, owner, repo of the writer (the ViewsClones object has its date)
    statuses,   \* status codes of the requests of the call so far
    responses,  \* get_stat: JSON bodies received so far
    stats,      \* write_stat: the stamped rows
    merged,     \* write_stat: the merged frame
    before,     \* the file when the call started
    calls,      \* calls started by each writer
    prevStats,  \* stats of the writer's previous call if it returned, else empty
    last,       \* per key, the rows of the latest call that returned
    allOk,      \* no call has raised so far
    file0,      \* the file before the first call
    seenAtRead, \* the phase of every writer when the writer read the file
    seenAtOpen  \* the phase of every writer when the writer opened the file

vars == <<file, metric, writers, pc, args, statuses, responses, stats, merged,
          before, calls, prevStats, last, allOk, file0, seenAtRead, seenAtOpen>>

NoArgs == [date |-> "", owner |-> "", repo |-> ""]
CallLimit == IF Cardinality(writers) = 1 THEN MaxCalls ELSE 1

InitWith(ws, m, files) ==
    /\ metric = m
    /\ file \in files
    /\ file0 = file
    /\ writers = ws
    /\ pc = [w \in ws |-> "idle"]
    /\ args = [w \in ws |-> NoArgs]
    /\ statuses = [w \in ws |-> <<>>]
    /\ responses = [w \in ws |-> <<>>]
    /\ stats = [w \in ws |-> EmptyFrame]
    /\ merged = [w \in ws |-> EmptyFrame]
    /\ before = [w \in ws |-> file]
    /\ calls = [w \in ws |-> 0]
    /\ prevStats = [w \in ws |-> EmptyFrame]
    /\ last = [k \in StatKeys |-> <<>>]
    /\ allOk = TRUE
    /\ seenAtRead = [w \in ws |-> [o \in ws |-> "early"]]
    /\ seenAtOpen = [w \in ws |-> [o \in ws |-> "early"]]

Init == \E m \in Metrics : InitWith({1}, m, {NoFile, ExistingFile(m), CorruptFile(m)})

\* ---------------------------------------------------------------- actions
\* the rows of a CSV text under the declared columns of the metric, by name
Proj(lines, m) ==
    [i \in 1..(Len(lines) - 1) |->
        [j \in 1..Len(Header(m)) |->
            IF /\ InSeq(lines[1], Header(m)[j])
               /\ IndexOf(lines[1], Header(m)[j]) <= Len(lines[i + 1])
            THEN lines[i + 1][IndexOf(lines[1], Header(m)[j])]
            ELSE ""]]

\* the part of write_stat each writer is in, as another writer sees it
Phase(p) ==
    CASE p \in {"idle", "fetch", "process", "read", "open"} -> "early"
      [] p = "write" -> "persisting"
      [] p = "done" -> "returned"
      [] p = "failed" -> "raised"

Raised(w) ==
    /\ pc' = [pc EXCEPT ![w] = "failed"]
    /\ allOk' = FALSE

\* write_stat is entered; os.makedirs(csv.parent, exist_ok=True) may raise
Start(w) ==
    /\ pc[w] \in {"idle", "done", "failed"}
    /\ calls[w] < CallLimit
    /\ \E date \in Dates, owner \in Owners, repo \in Repos, made \in BOOLEAN :
          /\ args' = [args EXCEPT ![w] = [date |-> date, owner |-> owner, repo |-> repo]]
          /\ pc' = [pc EXCEPT ![w] = IF made THEN "fetch" ELSE "failed"]
          /\ allOk' = (allOk /\ made)
    /\ calls' = [calls EXCEPT ![w] = @ + 1]
    /\ before' = [before EXCEPT ![w] = file]
    /\ prevStats' = [prevStats EXCEPT ![w] = IF pc[w] = "done" THEN stats[w] ELSE EmptyFrame]
    /\ statuses' = [statuses EXCEPT ![w] = <<>>]
    /\ responses' = [responses EXCEPT ![w] = <<>>]
    /\ stats' = [stats EXCEPT ![w] = EmptyFrame]
    /\ merged' = [merged EXCEPT ![w] = EmptyFrame]
    /\ seenAtRead' = [seenAtRead EXCEPT ![w] = [o \in writers |-> "early"]]
    /\ seenAtOpen' = [seenAtOpen EXCEPT ![w] = [o \in writers |-> "early"]]
    /\ UNCHANGED <<file, metric, writers, last, file0>>

\* GithubStatAPI.get_stat, one turn of the loop over stat_type.urls
Get(w) ==
    /\ pc[w] = "fetch"
    /\ \E r \in Responses(metric, Len(responses[w]) + 1) :
          /\ statuses' = [statuses EXCEPT ![w] = Append(@, r.status)]
          /\ IF raise_for_status(r.status)
             THEN Raised(w) /\ UNCHANGED responses
             ELSE /\ responses' = [responses EXCEPT ![w] = Append(@, r.body)]
                  /\ pc' = [pc EXCEPT ![w] =
                              IF Len(responses[w]) + 1 = Len(urls(metric))
                              THEN "process" ELSE "fetch"]
                  /\ UNCHANGED allOk
    /\ UNCHANGED <<file, metric, writers, args, stats, merged, before, calls,
                   prevStats, last, file0, seenAtRead, seenAtOpen>>

\* the rest of _get_stats: process_stat, the sentinel row, _insert_metadata
Process(w) ==
    /\ pc[w] = "process"
    /\ LET r == get_stats(metric, responses[w], args[w].date,
                          args[w].date, args[w].owner, args[w].repo)
       IN IF r.ok
          THEN /\ stats' = [stats EXCEPT ![w] = r.v]
               /\ pc' = [pc EXCEPT ![w] = "read"]
               /\ UNCHANGED allOk
          ELSE Raised(w) /\ UNCHANGED stats
    /\ UNCHANGED <<file, metric, writers, args, statuses, responses, merged, before,
                   calls, prevStats, last, file0, seenAtRead, seenAtOpen>>

\* _get_stored_stats(csv) and _merge_stats(stored_stats, stats)
write_stat_merge(f, st, a) ==
    LET stored == get_stored_stats(f)
    IN IF ~stored.ok THEN Raise
       ELSE merge_stats(stored.v, st, a.date, a.owner, a.repo)

ReadMerge(w) ==
    /\ pc[w] = "read"
    /\ LET r == write_stat_merge(file, stats[w], args[w])
       IN IF r.ok
          THEN /\ merged' = [merged EXCEPT ![w] = r.v]
               /\ pc' = [pc EXCEPT ![w] = "open"]
               /\ seenAtRead' = [seenAtRead EXCEPT ![w] = [o \in writers |-> Phase(pc[o])]]
               /\ UNCHANGED allOk
          ELSE Raised(w) /\ UNCHANGED <<merged, seenAtRead>>
    /\ UNCHANGED <<file, metric, writers, args, statuses, responses, stats, before,
                   calls, prevStats, last, file0, seenAtOpen>>

\* faulty variant: the file is opened for writing without being cut
PersistOpen_no_truncate(w) ==
    /\ pc[w] = "open"
    /\ file' = FileOf(file.lines)
    /\ pc' = [pc EXCEPT ![w] = "write"]
    /\ seenAtOpen' = [seenAtOpen EXCEPT ![w] = [o \in writers |-> Phase(pc[o])]]
    /\ UNCHANGED <<metric, writers, args, statuses, responses, stats, merged, before,
                   calls, prevStats, last, allOk, file0, seenAtRead>>

\* merged_stats.to_csv(csv, index=False) opens csv for writing: the file is
\* created or cut to length 0
PersistOpen(w) ==
    /\ pc[w] = "open"
    /\ file' = FileOf(<<>>)
    /\ pc' = [pc EXCEPT ![w] = "write"]
    /\ seenAtOpen' = [seenAtOpen EXCEPT ![w] = [o \in writers |-> Phase(pc[o])]]
    /\ UNCHANGED <<metric, writers, args, statuses, responses, stats, merged, before,
                   calls, prevStats, last, allOk, file0, seenAtRead>>

\* a write at the start of the file through a handle opened earlier: what
\* another handle wrote beyond the end of the chunk stays
Overlay(lines, chunk) == chunk \o SubSeq(lines, Len(chunk) + 1, Len(lines))

\* to_csv writes the text (the handle is buffered: one write when it is
\* closed) and write_stat returns
PersistWrite(w) ==
    /\ pc[w] = "write"
    /\ file' = FileOf(Overlay(file.lines, to_csv(merged[w])))
    /\ pc' = [pc EXCEPT ![w] = "done"]
    /\ last' = [last EXCEPT ![<<args[w].date, args[w].owner, args[w].repo>>] =
                   Proj(to_csv(stats[w]), metric)]
    /\ UNCHANGED <<metric, writers, args, statuses, responses, stats, merged, before,
                   calls, prevStats, allOk, file0, seenAtRead, seenAtOpen>>

\* the write raises (OSError: no space left on device) after only the
\* first n lines reached the file
PersistFail(w) ==
    /\ pc[w] = "write"
    /\ \E n \in 0..(Len(to_csv(merged[w])) - 1) :
          file' = FileOf(Overlay(file.lines, SubSeq(to_csv(merged[w]), 1, n)))
    /\ Raised(w)
    /\ UNCHANGED <<metric, writers, args, statuses, responses, stats, merged,
                   before, calls, prevStats, last, file0, seenAtRead, seenAtOpen>>

Next ==
    \/ \E w \in writers : Start(w)
    \/ \E w \in writers : Get(w)
    \/ \E w \in writers : Process(w)
    \/ \E w \in writers : ReadMerge(w)
    \/ \E w \in writers : PersistOpen(w)
    \/ \E w \in writers : PersistWrite(w)
    \/ \E w \in writers : PersistFail(w)

Spec == Init /\ [][Next]_vars

\* two writers, one call each, on the same file
InitRace == \E m \in Metrics : InitWith({1, 2}, m, {NoFile, ExistingFile(m)})
SpecRace == InitRace /\ [][Next]_vars

\* ------------------------------------------------------------- properties
KeyOf(w) == <<args[w].date, args[w].owner, args[w].repo>>
Returned(w) == pc[w] = "done"

\* the rows of a projected table that carry a key, and those that do not
RowsOfKey(rows, k) == SelectSeq(rows, LAMBDA r : <<r[1], r[2], r[3]>> = k)
RowsNotOfKey(rows, k) == SelectSeq(rows, LAMBDA r : <<r[1], r[2], r[3]>> # k)
FreshRows(w) == Proj(to_csv(stats[w]), metric)

\* C1: when write_stat returns, the rows of the file are the rows the file
\* had before whose (date, owner, repo) is not the writer's key, in their
\* order, followed by the freshly stamped rows; every row of the key is gone.
C1_WholeKeyReplace ==
    \A w \in writers :
        Returned(w) =>
            Proj(file.lines, metric)
                = RowsNotOfKey(Proj(before[w].lines, metric), KeyOf(w)) \o FreshRows(w)

\* C2: starting from a missing file, after calls that all returned, the file
\* holds for every key exactly the rows of the latest write of that key.
C2_LatestRowsPerKey ==
    (~file0.exists /\ allOk /\ \A w \in writers : pc[w] \in {"idle", "done"}) =>
        \A k \in StatKeys : RowsOfKey(Proj(file.lines, metric), k) = last[k]

\* C3: a call that writes the same stamped rows as the call before it leaves
\* the file exactly as that call left it.
C3_Idempotent ==
    \A w \in writers :
        (Returned(w) /\ stats[w] = prevStats[w]) => file = before[w]

C5_AtomicReplace ==
    \A w \in writers :
        (Len(before[w].lines) > 1 /\ ~read_csv_raises(before[w].lines)) =>
            \/ file = before[w]
            \/ merged[w] # EmptyFrame /\ file = FileOf(to_csv(merged[w]))

\* the fetch of the call returned a well-formed payload without items
ZeroItems(w) ==
    /\ Len(responses[w]) = Len(urls(metric))
    /\ CASE metric \in {"Referrers", "Paths"} ->
                responses[w][1].kind = "list" /\ responses[w][1].items = <<>>
         [] metric = "ViewsClones" ->
                /\ responses[w][1].hist = << <<"views", <<>> >> >>
                /\ responses[w][2].hist = << <<"clones", <<>> >> >>
         [] OTHER -> FALSE

SentinelLine(w) ==
    <<args[w].date, args[w].owner, args[w].repo>>
    \o [i \in 1..Len(dimensions(metric)) |-> "-"]
    \o [i \in 1..Len(measures(metric)) |-> "0"]

\* C6: the stamped rows of a fetch without items are one row, "-" in every
\* dimension and 0 in every measure, under the declared columns; the write
\* puts it at the end of the file, and after every returned call the file
\* has a row of the writer's key.
C6_SentinelRow ==
    \A w \in writers :
        /\ (ZeroItems(w) /\ pc[w] \in {"read", "open", "write", "done"}) =>
              /\ stats[w].cols = Header(metric)
              /\ Len(stats[w].rows) = 1
              /\ stats[w].rows[1] =
                    <<StrVal(args[w].date), StrVal(args[w].owner), StrVal(args[w].repo)>>
                    \o [i \in 1..Len(dimensions(metric)) |-> StrVal("-")]
                    \o [i \in 1..Len(measures(metric)) |-> IntVal("0")]
        /\ (ZeroItems(w) /\ Returned(w)) =>
              Proj(file.lines, metric)[Len(file.lines) - 1] = SentinelLine(w)
        /\ Returned(w) => RowsOfKey(Proj(file.lines, metric), KeyOf(w)) # <<>>

\* C6 witness: a Referrers fetch without items was written to a file that
\* already held rows.
C6_Witness ==
    \E w \in writers :
        /\ metric = "Referrers"
        /\ ZeroItems(w)
        /\ Returned(w)
        /\ Len(before[w].lines) > 1
        /\ file.lines[Len(file.lines)] = SentinelLine(w)

\* C7: the header of the file a call leaves is date, owner, repo, the
\* declared dimensions and the declared measures, in that order.
C7_DeclaredColumns ==
    \A w \in writers : Returned(w) => file.lines[1] = Header(metric)

\* the payload lacks a member process_stat expects
Malformed(w) ==
    /\ Len(responses[w]) = Len(urls(metric))
    /\ \/ /\ metric = "StarsForks"
          /\ \E k \in {"stargazers_count", "forks_count"} : ~HasKey(responses[w][1].obj, k)
       \/ /\ metric = "ViewsClones"
          /\ \/ ~HasKey(responses[w][1].hist, "views")
             \/ ~HasKey(responses[w][2].hist, "clones")

\* C8: a payload that lacks an expected member makes the transform raise:
\* the call never gets to read, merge or write.
C8_MalformedPayloadRaises ==
    \A w \in writers : Malformed(w) => pc[w] \in {"process", "failed"}

\* C9: over a missing file the call does not raise in the read and leaves
\* the header and the freshly stamped rows; over a file read_csv cannot parse
\* the call raises in the read and the file keeps its content.
C9_MissingVersusUnparsable ==
    \A w \in writers :
        /\ ~before[w].exists =>
              /\ Returned(w) =>
                    file = FileOf(<<stats[w].cols>>
                                   \o [i \in 1..Len(stats[w].rows) |->
                                         [j \in 1..Len(stats[w].cols) |-> stats[w].rows[i][j][2]]])
              /\ (pc[w] = "failed" /\ stats[w] # EmptyFrame) => merged[w] # EmptyFrame
        /\ (before[w].exists /\ read_csv_raises(before[w].lines)) =>
              /\ pc[w] \notin {"open", "write", "done"}
              /\ file = before[w]

\* C9 witness: a call with its rows fetched has raised in the read of a file
\* that has a line of too many fields.
C9_Witness ==
    \E w \in writers :
        /\ before[w] = CorruptFile(metric)
        /\ pc[w] = "failed"
        /\ stats[w] # EmptyFrame
        /\ file = CorruptFile(metric)

\* C10: two calls a and b for different keys that both returned.  If b read
\* before a opened the file and opened it after a returned, the file is what
\* b alone makes of the first file: a's rows are lost.  If b read after a
\* returned, the file has the rows of both.
C10_LastWriterWins ==
    \A a \in writers : \A b \in writers \ {a} :
        (Returned(a) /\ Returned(b) /\ KeyOf(a) # KeyOf(b)) =>
            /\ (seenAtRead[b][a] = "early" /\ seenAtOpen[b][a] = "returned") =>
                  /\ Proj(file.lines, metric)
                        = RowsNotOfKey(Proj(file0.lines, metric), KeyOf(b)) \o FreshRows(b)
                  /\ RowsOfKey(Proj(file.lines, metric), KeyOf(a)) = <<>>
            /\ seenAtRead[b][a] = "returned" =>
                  /\ RowsOfKey(Proj(file.lines, metric), KeyOf(a)) = FreshRows(a)
                  /\ RowsOfKey(Proj(file.lines, metric), KeyOf(b)) = FreshRows(b)

\* C10 witness: the lost update has happened over a file that held rows.
C10_Witness ==
    \E a \in writers : \E b \in writers \ {a} :
        /\ Returned(a) /\ Returned(b) /\ KeyOf(a) # KeyOf(b)
        /\ seenAtRead[b][a] = "early" /\ seenAtOpen[b][a] = "returned"
        /\ file0.exists
        /\ RowsOfKey(Proj(file.lines, metric), KeyOf(a)) = <<>>
        /\ RowsOfKey(Proj(file.lines, metric), KeyOf(b)) = FreshRows(b)

====
